---- MODULE Spec2Model ----
(***************************************************************************)
(* The reviews API (reviews-api/app.py): one-time review codes redeemed by *)
(* POST /submit-review inside a BEGIN IMMEDIATE transaction, the session   *)
(* gated admin endpoints, and the gallery metadata.                        *)
(*                                                                         *)
(* Text is a sequence of one-character strings, so that strip(), the code  *)
(* pattern, splitlines() and int() are computed and not assumed.           *)
(***************************************************************************)
EXTENDS Integers, Sequences, FiniteSets, TLC

VARIABLES
  tables,         \* names of the tables that exist in the store
  reviewsSchema,  \* columns of the reviews table (it is never created by app.py)
  codes,          \* review_codes rows, committed, by code
  reviews,        \* reviews rows, committed
  made,           \* history: redemptions committed per code (saturating)
  wlock,          \* the connection holding SQLite's write lock, or NoClient
  pc,             \* each client's position in submit_review
  req,            \* each client's request
  resp,           \* each client's response
  txn,            \* each client's uncommitted writes
  is_admin,       \* session["is_admin"]
  adminPassword,  \* ADMIN_PASSWORD
  adminResp,      \* the last admin call and its response
  gallery,        \* gallery_images rows, committed
  files,          \* files present in GALLERY_DIR
  nextImageId     \* AUTOINCREMENT sequence of gallery_images

storeVars  == <<tables, reviewsSchema, codes, reviews, made, wlock>>
clientVars == <<pc, req, resp, txn>>
adminVars  == <<is_admin, adminPassword, adminResp>>
galleryVars == <<gallery, files, nextImageId>>
vars == <<tables, reviewsSchema, codes, reviews, made, wlock, pc, req, resp, txn,
          is_admin, adminPassword, adminResp, gallery, files, nextImageId>>

-----------------------------------------------------------------------------
(* Bounds *)

NumClients == 2
MaxReviews == 1
MaxUploads == 1

Clients  == 1..NumClients
NoClient == 0

-----------------------------------------------------------------------------
(* Text *)

NULL == <<"NULL">>
NowTs == <<"now">>

Whitespace == {" ", "\n", "\t"}
Digits == {"0", "1", "2", "3", "4", "5", "6", "7", "8", "9"}

RECURSIVE LStrip(_)
LStrip(s) == IF s # <<>> /\ Head(s) \in Whitespace THEN LStrip(Tail(s)) ELSE s

RECURSIVE RStrip(_)
RStrip(s) ==
  IF s # <<>> /\ s[Len(s)] \in Whitespace THEN RStrip(SubSeq(s, 1, Len(s) - 1)) ELSE s

\* str.strip()
Strip(s) == RStrip(LStrip(s))

\* (x or None)
OrNone(s) == IF s = <<>> THEN NULL ELSE s

\* CODE_RE.fullmatch(s): ^\d{3}$
CODE_RE(s) == Len(s) = 3 /\ \A i \in 1..3 : s[i] \in Digits

DigitVal(ch) ==
  CASE ch = "0" -> 0 [] ch = "1" -> 1 [] ch = "2" -> 2 [] ch = "3" -> 3 [] ch = "4" -> 4
    [] ch = "5" -> 5 [] ch = "6" -> 6 [] ch = "7" -> 7 [] ch = "8" -> 8 [] OTHER -> 9

RECURSIVE DecVal(_)
DecVal(s) ==
  IF s = <<>> THEN 0 ELSE DecVal(SubSeq(s, 1, Len(s) - 1)) * 10 + DigitVal(s[Len(s)])

AllDigits(s) == s # <<>> /\ \A i \in 1..Len(s) : s[i] \in Digits

\* str.isdigit()
IsDigit(s) == AllDigits(s)

(* A rating as the request carries it: absent (None), a JSON integer, a JSON  *)
(* number with a fractional part (n its integer part, frac its tenths), or    *)
(* a string (form field or JSON string).                                      *)
RNone       == [kind |-> "none",  n |-> 0, frac |-> 0, s |-> <<>>]
RInt(k)     == [kind |-> "int",   n |-> k, frac |-> 0, s |-> <<>>]
RFloat(k,f) == [kind |-> "float", n |-> k, frac |-> f, s |-> <<>>]
RStr(t)     == [kind |-> "str",   n |-> 0, frac |-> 0, s |-> t]

(* int(rating): an int is itself, a float is truncated towards zero, a string *)
(* is stripped and must be an optionally signed run of digits, or ValueError. *)
PyInt(r) ==
  CASE r.kind = "int"   -> [ok |-> TRUE, val |-> r.n]
    [] r.kind = "float" -> [ok |-> TRUE, val |-> r.n]
    [] r.kind = "str"   ->
         LET t == Strip(r.s)
             neg == t # <<>> /\ Head(t) = "-"
             body == IF t # <<>> /\ Head(t) \in {"-", "+"} THEN Tail(t) ELSE t
         IN  IF AllDigits(body)
               THEN [ok |-> TRUE, val |-> IF neg THEN 0 - DecVal(body) ELSE DecVal(body)]
               ELSE [ok |-> FALSE, val |-> 0]
    [] OTHER -> [ok |-> FALSE, val |-> 0]


\* index of the first "\n" of s, 0 when there is none
RECURSIVE FirstBreak(_, _)
FirstBreak(s, i) ==
  IF i > Len(s) THEN 0 ELSE IF s[i] = "\n" THEN i ELSE FirstBreak(s, i + 1)

\* str.splitlines()
RECURSIVE SplitLines(_)
SplitLines(s) ==
  IF s = <<>> THEN <<>>
  ELSE LET i == FirstBreak(s, 1) IN
       IF i = 0 THEN <<s>>
       ELSE <<SubSeq(s, 1, i - 1)>> \o SplitLines(SubSeq(s, i + 1, Len(s)))

\* [line.strip() for line in lines if line.strip()]
RECURSIVE NonBlank(_)
NonBlank(ls) ==
  IF ls = <<>> THEN <<>>
  ELSE IF Strip(Head(ls)) = <<>> THEN NonBlank(Tail(ls))
  ELSE <<Strip(Head(ls))>> \o NonBlank(Tail(ls))

\* str.lower(), on the letters file names are written with here
Lower(ch) ==
  CASE ch = "J" -> "j" [] ch = "P" -> "p" [] ch = "G" -> "g" [] OTHER -> ch

\* index of the last "." of s, 0 when there is none
RECURSIVE LastDot(_, _)
LastDot(s, i) == IF i = 0 THEN 0 ELSE IF s[i] = "." THEN i ELSE LastDot(s, i - 1)

\* Path(name).suffix.lower(): from the last dot, unless the name starts with it
Suffix(s) ==
  LET i == LastDot(s, Len(s)) IN
  IF i <= 1 \/ i = Len(s) THEN <<>> ELSE [k \in 1..(Len(s) - i + 1) |-> Lower(s[i + k - 1])]

-----------------------------------------------------------------------------
(* Responses *)

Response(st, err) == [status |-> st, error |-> err]
NoResp == Response(0, "")
Ok200  == Response(200, "")

\* an admin response: status, error tag, the text the tag carries, and the
\* ids of the images a gallery listing shows
AResp(st, err, det) == [status |-> st, error |-> err, detail |-> det, images |-> {}]
NoCall == AResp(0, "", <<>>)

-----------------------------------------------------------------------------
(* Requests to /submit-review *)

C123 == <<"1", "2", "3">>
C456 == <<"4", "5", "6">>
Codes == {C123, C456}

Alice == <<"A", "l">>
Bob   == <<" ", "B", "o", " ">>
Mail  == <<"a", "@", "x">>
Great == <<"G", "r", "!">>

Review(n, e, r, m, c) == [name |-> n, email |-> e, rating |-> r, message |-> m, code |-> c]

Requests ==
  { Review(Alice, Mail, RInt(5), Great, C123),
    Review(Bob, <<>>, RStr(<<" ", "4">>), Great, C123),
    Review(Alice, Mail, RInt(1), Great, <<" ", "4", "5", "6">>),
    Review(Alice, Mail, RFloat(2, 5), Great, C123),
    Review(<<" ">>, Mail, RInt(5), Great, C123),
    Review(Alice, Mail, RInt(5), <<>>, C123),
    Review(Alice, Mail, RNone, Great, C123),
    Review(Alice, Mail, RInt(0), Great, C123),
    Review(Alice, Mail, RInt(6), Great, C123),
    Review(Alice, Mail, RStr(<<"2", ".", "5">>), Great, C123),
    Review(Alice, Mail, RStr(<<"a", "b">>), Great, C123),
    Review(Alice, Mail, RInt(5), Great, <<"1", "2", "a">>),
    Review(Alice, Mail, RInt(5), Great, <<"1", "2", "3", "4">>),
    Review(Alice, Mail, RInt(6), Great, <<"1", "2">>) }

NoRequest == Review(<<>>, <<>>, RNone, <<>>, <<>>)

\* parse_incoming_review: every text field stripped
Parse(r) ==
  [name |-> Strip(r.name), email |-> Strip(r.email), rating |-> r.rating,
   message |-> Strip(r.message), code |-> Strip(r.code)]

\* submit_review, the checks before the store is opened; NoResp when all pass
Validate(r) ==
  LET q == Parse(r) IN
  IF q.name = <<>> \/ q.message = <<>> \/ q.rating.kind = "none"
    THEN Response(400, "name, rating, and message are required")
  ELSE IF ~CODE_RE(q.code)
    THEN Response(403, "invalid_code")
  ELSE IF ~PyInt(q.rating).ok
    THEN Response(400, "rating must be an integer")
  ELSE IF PyInt(q.rating).val < 1 \/ PyInt(q.rating).val > 5
    THEN Response(400, "rating must be between 1 and 5")
  ELSE NoResp

-----------------------------------------------------------------------------
(* The store *)

AllTables == {"review_codes", "gallery_images", "reviews"}

\* review_codes row: used_at NULL means unredeemed
NoRow == [present |-> FALSE, used_at |-> NULL, used_by_email |-> NULL, used_by_name |-> NULL]
FreshRow == [present |-> TRUE, used_at |-> NULL, used_by_email |-> NULL, used_by_name |-> NULL]
UsedRow(email, name) ==
  [present |-> TRUE, used_at |-> NowTs, used_by_email |-> email, used_by_name |-> name]

RowOf(c) == IF c \in Codes THEN codes[c] ELSE NoRow

\* WHERE code = ? AND used_at IS NULL
Unredeemed(c) == RowOf(c).present /\ RowOf(c).used_at = NULL

SupportedCols == {"name", "email", "rating", "message", "created_at"}
FullCols == {"id", "name", "email", "rating", "message", "created_at"}

Schema(cols, strict) == [cols |-> cols, strict |-> strict]
NoSchema == Schema({}, FALSE)

(* The reviews tables a deployment may hold: the full one, one with some of   *)
(* the columns, one with no supported column, and one with a further NOT NULL *)
(* column that the INSERT cannot fill.                                        *)
ReviewsSchemas ==
  { Schema(FullCols, FALSE),
    Schema({"id", "name", "rating", "message"}, FALSE),
    Schema({"id", "body"}, FALSE),
    Schema(FullCols \cup {"title"}, TRUE) }

\* has_table(conn, table)
has_table(t) == t \in tables

\* table_columns(conn, "reviews")
table_columns == reviewsSchema.cols

\* an ensure_schema that creates the reviews table as well
ensure_schema_all == tables \cup {"review_codes", "gallery_images", "reviews"}

\* the tables after ensure_schema: CREATE TABLE IF NOT EXISTS, twice
ensure_schema == tables \cup {"review_codes", "gallery_images"}

Max(S) == IF S = {} THEN 0 ELSE CHOOSE x \in S : \A y \in S : y <= x

NoTxn == [code |-> <<>>, row |-> NoRow, rows |-> {}]

\* the row submit_review inserts: the supported columns the table has
RowWith(id, q, cols) ==
  [id |-> id,
   vals |-> [c \in cols \cap SupportedCols |->
               CASE c = "name" -> q.name
                 [] c = "email" -> OrNone(q.email)
                 [] c = "rating" -> PyInt(q.rating).val
                 [] c = "message" -> q.message
                 [] OTHER -> NowTs]]

\* the new row takes the rowid after the largest one
ReviewRow(q, cols) == RowWith(Max({r.id : r \in reviews}) + 1, q, cols)

-----------------------------------------------------------------------------
(* Initial states *)

InitClients ==
  /\ pc = [p \in Clients |-> "idle"]
  /\ req = [p \in Clients |-> NoRequest]
  /\ resp = [p \in Clients |-> NoResp]
  /\ txn = [p \in Clients |-> NoTxn]

InitSession ==
  /\ is_admin = FALSE
  /\ adminPassword \in {<<>>, <<"p", "w">>}
  /\ adminResp = NoCall
  /\ gallery = {}
  /\ files = {}
  /\ nextImageId = 1

SeedRows == {NoRow, FreshRow}

(* A store is empty, or holds a reviews table alone, or is in service with    *)
(* every table; reviews exists only where the deployment created it.          *)
Init ==
  /\ InitClients
  /\ InitSession
  /\ tables \in {{}, {"reviews"}, AllTables}
  /\ reviewsSchema \in (IF "reviews" \in tables THEN ReviewsSchemas ELSE {NoSchema})
  /\ codes \in (IF "review_codes" \in tables
                  THEN [Codes -> SeedRows] ELSE {[c \in Codes |-> NoRow]})
  /\ reviews = {}
  /\ made = [c \in Codes |-> 0]
  /\ wlock = NoClient

\* a store before any code was added: empty, or in service with the full reviews table
InitService ==
  /\ Init
  /\ tables \in {{}, AllTables}
  /\ reviewsSchema \in {NoSchema, Schema(FullCols, FALSE)}
  /\ codes = [c \in Codes |-> NoRow]

\* a store in service, one code redeemed and its review stored
InitSeeded ==
  /\ InitClients
  /\ InitSession
  /\ tables = AllTables
  /\ reviewsSchema = Schema(FullCols, FALSE)
  /\ codes \in [Codes -> {NoRow, FreshRow, UsedRow(Mail, Alice)}]
  /\ reviews \in {{}, {RowWith(1, Review(Alice, Mail, RInt(5), Great, C123), FullCols)}}
  /\ made = [c \in Codes |-> 0]
  /\ wlock = NoClient

\* a store in service whose reviews table takes the insert
InitProvisioned ==
  /\ Init
  /\ tables = AllTables
  /\ reviewsSchema \in {Schema(FullCols, FALSE), Schema({"id", "name", "rating", "message"}, FALSE)}
  /\ adminPassword = <<"p", "w">>

-----------------------------------------------------------------------------
(* POST /submit-review *)

Finish(p, r) ==
  /\ pc' = [pc EXCEPT ![p] = "done"]
  /\ resp' = [resp EXCEPT ![p] = r]

\* the transaction ends: nothing is pending, the write lock is free
EndTxn(p) ==
  /\ txn' = [txn EXCEPT ![p] = NoTxn]
  /\ wlock' = IF wlock = p THEN NoClient ELSE wlock

\* ROLLBACK and conn.close(): the uncommitted writes are dropped
Rollback(p) ==
  /\ EndTxn(p)
  /\ UNCHANGED <<codes, reviews, made>>

\* parse and validate; a failure answers before the store is opened
Receive(p, r) ==
  /\ pc[p] = "idle"
  /\ Cardinality(reviews) < MaxReviews
  /\ req' = [req EXCEPT ![p] = r]
  /\ IF Validate(r) = NoResp
       THEN /\ pc' = [pc EXCEPT ![p] = "schema"]
            /\ resp' = [resp EXCEPT ![p] = NoResp]
       ELSE Finish(p, Validate(r))
  /\ UNCHANGED <<storeVars, txn, adminVars, galleryVars>>

\* get_db, ensure_schema, has_table(conn, "reviews")
OpenStore(p) ==
  /\ pc[p] = "schema"
  /\ tables' = ensure_schema
  /\ IF "reviews" \notin tables
       THEN Finish(p, Response(500, "missing_reviews_table"))
       ELSE /\ pc' = [pc EXCEPT ![p] = "begin"]
            /\ resp' = resp
  /\ UNCHANGED <<reviewsSchema, codes, reviews, made, wlock, req, txn, adminVars, galleryVars>>

\* BEGIN that takes no lock: a deferred transaction
BeginDeferred(p) ==
  /\ pc[p] = "begin"
  /\ wlock' = IF wlock = NoClient THEN p ELSE wlock
  /\ pc' = [pc EXCEPT ![p] = "update"]
  /\ UNCHANGED <<tables, reviewsSchema, codes, reviews, made, req, resp, txn, adminVars, galleryVars>>

\* BEGIN IMMEDIATE takes the write lock
Begin(p) ==
  /\ pc[p] = "begin"
  /\ wlock = NoClient
  /\ wlock' = p
  /\ pc' = [pc EXCEPT ![p] = "update"]
  /\ UNCHANGED <<tables, reviewsSchema, codes, reviews, made, req, resp, txn, adminVars, galleryVars>>

\* BEGIN IMMEDIATE waits busy_timeout for the lock another connection holds,
\* then raises OperationalError (database is locked)
BeginBusy(p) ==
  /\ pc[p] = "begin"
  /\ wlock # NoClient
  /\ Finish(p, Response(503, "db_busy"))
  /\ UNCHANGED <<storeVars, req, txn, adminVars, galleryVars>>

\* the UPDATE without "AND used_at IS NULL"
RedeemAnyRow(p) ==
  LET q == Parse(req[p]) IN
  /\ pc[p] = "update"
  /\ IF ~RowOf(q.code).present
       THEN /\ Rollback(p)
            /\ Finish(p, Response(403, "invalid_code"))
       ELSE /\ txn' = [txn EXCEPT ![p] = [code |-> q.code,
                                          row |-> UsedRow(OrNone(q.email), q.name),
                                          rows |-> {}]]
            /\ pc' = [pc EXCEPT ![p] = "insert"]
            /\ UNCHANGED <<wlock, resp, codes, reviews, made>>
  /\ UNCHANGED <<tables, reviewsSchema, req, adminVars, galleryVars>>

\* the UPDATE whose rowcount is not looked at
RedeemNoRowcount(p) ==
  LET q == Parse(req[p]) IN
  /\ pc[p] = "update"
  /\ txn' = [txn EXCEPT ![p] = [code |-> IF Unredeemed(q.code) THEN q.code ELSE <<>>,
                                 row |-> UsedRow(OrNone(q.email), q.name),
                                 rows |-> {}]]
  /\ pc' = [pc EXCEPT ![p] = "insert"]
  /\ UNCHANGED <<wlock, resp, codes, reviews, made>>
  /\ UNCHANGED <<tables, reviewsSchema, req, adminVars, galleryVars>>

\* the UPDATE run in autocommit mode, outside any transaction
RedeemAutocommit(p) ==
  LET q == Parse(req[p]) IN
  /\ pc[p] = "update"
  /\ IF ~Unredeemed(q.code)
       THEN /\ Rollback(p)
            /\ Finish(p, Response(403, "invalid_code"))
       ELSE /\ txn' = [txn EXCEPT ![p] = [code |-> q.code,
                                          row |-> UsedRow(OrNone(q.email), q.name),
                                          rows |-> {}]]
            /\ codes' = [codes EXCEPT ![q.code] = UsedRow(OrNone(q.email), q.name)]
            /\ pc' = [pc EXCEPT ![p] = "insert"]
            /\ UNCHANGED <<wlock, resp, reviews, made>>
  /\ UNCHANGED <<tables, reviewsSchema, req, adminVars, galleryVars>>

\* UPDATE review_codes ... WHERE code = ? AND used_at IS NULL, and the rowcount
Redeem(p) ==
  LET q == Parse(req[p]) IN
  /\ pc[p] = "update"
  /\ IF ~Unredeemed(q.code)
       THEN /\ Rollback(p)
            /\ Finish(p, Response(403, "invalid_code"))
       ELSE /\ txn' = [txn EXCEPT ![p] = [code |-> q.code,
                                          row |-> UsedRow(OrNone(q.email), q.name),
                                          rows |-> {}]]
            /\ pc' = [pc EXCEPT ![p] = "insert"]
            /\ UNCHANGED <<wlock, resp, codes, reviews, made>>
  /\ UNCHANGED <<tables, reviewsSchema, req, adminVars, galleryVars>>

\* table_columns, then INSERT INTO reviews of the supported columns
Insert(p) ==
  LET q == Parse(req[p]) IN
  /\ pc[p] = "insert"
  /\ IF table_columns \cap SupportedCols = {}
       THEN /\ Rollback(p)
            /\ Finish(p, Response(500, "reviews_table_has_no_supported_columns"))
       ELSE IF reviewsSchema.strict
         THEN \* IntegrityError: NOT NULL constraint failed
              /\ Rollback(p)
              /\ Finish(p, Response(500, "server_error"))
         ELSE /\ txn' = [txn EXCEPT ![p].rows = {ReviewRow(q, table_columns)}]
              /\ pc' = [pc EXCEPT ![p] = "commit"]
              /\ UNCHANGED <<wlock, resp, codes, reviews, made>>
  /\ UNCHANGED <<tables, reviewsSchema, req, adminVars, galleryVars>>

\* conn.commit(): both writes become durable together
Commit(p) ==
  /\ pc[p] = "commit"
  /\ codes' = [c \in Codes |-> IF c = txn[p].code THEN txn[p].row ELSE codes[c]]
  /\ reviews' = reviews \cup txn[p].rows
  /\ made' = [c \in Codes |-> IF c = txn[p].code /\ made[c] < 2 THEN made[c] + 1 ELSE made[c]]
  /\ EndTxn(p)
  /\ Finish(p, Ok200)
  /\ UNCHANGED <<tables, reviewsSchema, req, adminVars, galleryVars>>

(* The store raises at the client's next statement: an OperationalError that *)
(* is not lock contention (disk full, I/O error, read-only file), or another *)
(* sqlite3 error.                                                            *)
StoreErrors == {"operational", "other"}

\* except sqlite3.OperationalError / except Exception
ErrorResponse(kind) ==
  IF kind = "operational" THEN Response(503, "db_busy") ELSE Response(500, "server_error")

StoreError(p, kind) ==
  /\ pc[p] \in {"schema", "begin", "update", "insert", "commit"}
  /\ pc[p] = "begin" => wlock = NoClient
  /\ Rollback(p)
  /\ Finish(p, ErrorResponse(kind))
  /\ UNCHANGED <<tables, reviewsSchema, req, adminVars, galleryVars>>

\* the worker takes its next request
NextRequest(p) ==
  /\ pc[p] = "done"
  /\ pc' = [pc EXCEPT ![p] = "idle"]
  /\ req' = [req EXCEPT ![p] = NoRequest]
  /\ resp' = [resp EXCEPT ![p] = NoResp]
  /\ UNCHANGED <<storeVars, txn, adminVars, galleryVars>>

\* GET /health
Health ==
  /\ tables' = ensure_schema
  /\ tables' # tables
  /\ UNCHANGED <<reviewsSchema, codes, reviews, made, wlock, clientVars, adminVars, galleryVars>>

\* the requests sent while the admin works: two valid ones, one refused on receipt
ServiceRequests ==
  { Review(Alice, Mail, RInt(5), Great, C123),
    Review(Bob, <<>>, RStr(<<" ", "4">>), Great, <<" ", "4", "5", "6">>),
    Review(Alice, Mail, RInt(5), Great, <<"1", "2", "a">>) }

\* the steps of one request that meets no other writer
SoloSteps(p, R) ==
  \/ \E r \in R : Receive(p, r)
  \/ OpenStore(p)
  \/ Begin(p)
  \/ Redeem(p)
  \/ Insert(p)
  \/ Commit(p)

SubmitSteps(p, R) ==
  \/ SoloSteps(p, R)
  \/ BeginBusy(p)

SubmitStep(p) == SubmitSteps(p, Requests)

NextRedeem == \E p \in Clients : SubmitStep(p)

SpecRedeem == InitProvisioned /\ [][NextRedeem]_vars

NextFaults ==
  \/ \E p \in Clients : SubmitSteps(p, ServiceRequests)
  \/ \E p \in Clients, k \in StoreErrors : StoreError(p, k)
  \/ Health

SpecFaults == Init /\ [][NextFaults]_vars

-----------------------------------------------------------------------------
(* Admin API *)

\* X-Requested-With as sent: absent (""), the admin pages' value, another value
Headers == {"", "smr-admin", "XMLHttpRequest"}

\* require_ajax_header()
require_ajax_header(hdr) == hdr = "smr-admin"

\* the session check alone, as admin_required makes it: no header check
session_gate(hdr) ==
  IF ~is_admin THEN Response(401, "unauthorized") ELSE NoResp

\* admin_write_required: the session first, then the header (every route is a POST)
admin_write_required(hdr) ==
  IF ~is_admin THEN Response(401, "unauthorized")
  ELSE IF ~require_ajax_header(hdr) THEN Response(400, "bad_request")
  ELSE NoResp

\* the call is refused by the decorator: nothing but the response changes
Refused(ep, hdr, arg) ==
  /\ admin_write_required(hdr) # NoResp
  /\ adminResp' = AResp(admin_write_required(hdr).status,
                        admin_write_required(hdr).error, <<>>)

Answer(ep, hdr, arg, st, err) == adminResp' = AResp(st, err, <<>>)

(* A statement that writes while a client holds the write lock waits           *)
(* busy_timeout and raises OperationalError; the admin handlers do not catch   *)
(* it and the framework answers 500.                                           *)
Locked == wlock # NoClient
Uncaught == "internal_server_error"

Passwords == {<<>>, <<"p", "w">>, <<"x">>}

\* the login without the check that a password is configured
LoginOpen(pw) ==
  /\ IF pw # adminPassword
       THEN /\ Answer("login", "", pw, 401, "bad_password")
            /\ is_admin' = is_admin
       ELSE /\ Answer("login", "", pw, 200, "")
            /\ is_admin' = TRUE
  /\ UNCHANGED <<storeVars, clientVars, adminPassword, galleryVars>>

\* POST /api/admin/login
Login(pw) ==
  /\ IF adminPassword = <<>>
       THEN /\ Answer("login", "", pw, 500, "admin_not_configured")
            /\ is_admin' = is_admin
       ELSE IF pw # adminPassword
         THEN /\ Answer("login", "", pw, 401, "bad_password")
              /\ is_admin' = is_admin
         ELSE /\ Answer("login", "", pw, 200, "")
              /\ is_admin' = TRUE
  /\ UNCHANGED <<storeVars, clientVars, adminPassword, galleryVars>>

\* POST /api/admin/logout
Logout(hdr) ==
  /\ IF admin_write_required(hdr) # NoResp
       THEN /\ Refused("logout", hdr, <<>>)
            /\ is_admin' = is_admin
       ELSE /\ Answer("logout", hdr, <<>>, 200, "")
            /\ is_admin' = FALSE
  /\ UNCHANGED <<storeVars, clientVars, adminPassword, galleryVars>>

LF == "\n"
Bodies ==
  { C123 \o <<LF>> \o C456 \o <<LF, "a", "b", "c">>,
    C123 \o <<LF>> \o C456,
    <<" ">> \o C456 \o <<" ", LF, LF>>,
    <<"1", "2", LF>> \o C123,
    <<" ", LF>> }

\* raw.strip(), then the stripped non-blank lines of the body
StrippedLines(raw) == NonBlank(SplitLines(Strip(raw)))

\* the lines that fail CODE_RE, in order
FailingLines(raw) == SelectSeq(StrippedLines(raw), LAMBDA c : ~CODE_RE(c))

\* both, computed once for each body that is sent
LinesOf == [raw \in Bodies |-> StrippedLines(raw)]
FailingOf == [raw \in Bodies |-> FailingLines(raw)]
BlankBodies == {raw \in Bodies : Strip(raw) = <<>>}

CodeLines(raw) == LinesOf[raw]
Malformed(raw) == FailingOf[raw]

InLines(c, ls) == \E i \in 1..Len(ls) : ls[i] = c

\* INSERT OR IGNORE INTO review_codes(code): a row that exists is left as it is
InsertOrIgnore(ls) ==
  [c \in Codes |-> IF InLines(c, ls) /\ ~codes[c].present THEN FreshRow ELSE codes[c]]

\* INSERT OR REPLACE: a row that exists is replaced by a fresh one
InsertOrReplace(ls) ==
  [c \in Codes |-> IF InLines(c, ls) THEN FreshRow ELSE codes[c]]

\* the loop that inserts each line as it is validated, up to the first bad one
RECURSIVE GoodPrefix(_)
GoodPrefix(ls) ==
  IF ls = <<>> \/ ~CODE_RE(Head(ls)) THEN <<>> ELSE <<Head(ls)>> \o GoodPrefix(Tail(ls))

AddCodesEager(hdr, raw) ==
  /\ admin_write_required(hdr) = NoResp
  /\ Malformed(raw) # <<>>
  /\ ~Locked
  /\ adminResp' = AResp(400, "invalid_code_format", Head(Malformed(raw)))
  /\ tables' = ensure_schema
  /\ codes' = InsertOrIgnore(GoodPrefix(CodeLines(raw)))
  /\ UNCHANGED <<reviewsSchema, reviews, made, wlock, clientVars, is_admin, adminPassword, galleryVars>>

AddCodesReplace(hdr, raw) ==
  /\ admin_write_required(hdr) = NoResp
  /\ Malformed(raw) = <<>> /\ CodeLines(raw) # <<>>
  /\ ~Locked
  /\ Answer("codes/add", hdr, raw, 200, "")
  /\ tables' = ensure_schema
  /\ codes' = InsertOrReplace(CodeLines(raw))
  /\ UNCHANGED <<reviewsSchema, reviews, made, wlock, clientVars, is_admin, adminPassword, galleryVars>>

\* POST /api/admin/codes/add
AddCodes(hdr, raw) ==
  /\ IF admin_write_required(hdr) # NoResp
       THEN /\ Refused("codes/add", hdr, raw)
            /\ UNCHANGED <<tables, codes>>
     ELSE IF raw \in BlankBodies
       THEN /\ Answer("codes/add", hdr, raw, 400, "no_codes")
            /\ UNCHANGED <<tables, codes>>
     ELSE IF Malformed(raw) # <<>>
       THEN /\ adminResp' = AResp(400, "invalid_code_format", Head(Malformed(raw)))
            /\ UNCHANGED <<tables, codes>>
     ELSE IF Locked
       THEN /\ Answer("codes/add", hdr, raw, 500, Uncaught)
            /\ UNCHANGED <<tables, codes>>
     ELSE /\ Answer("codes/add", hdr, raw, 200, "")
          /\ tables' = ensure_schema
          /\ codes' = InsertOrIgnore(CodeLines(raw))
  /\ UNCHANGED <<reviewsSchema, reviews, made, wlock, clientVars, is_admin, adminPassword, galleryVars>>

CodeArgs == {C123, <<" ">> \o C456, <<"1", "2">>}

\* POST /api/admin/codes/delete
DeleteCode(hdr, code) ==
  /\ IF admin_write_required(hdr) # NoResp
       THEN /\ Refused("codes/delete", hdr, code)
            /\ UNCHANGED <<tables, codes>>
     ELSE IF ~CODE_RE(Strip(code))
       THEN /\ Answer("codes/delete", hdr, code, 400, "invalid_code_format")
            /\ UNCHANGED <<tables, codes>>
     ELSE IF Locked
       THEN /\ Answer("codes/delete", hdr, code, 500, Uncaught)
            /\ UNCHANGED <<tables, codes>>
     ELSE /\ Answer("codes/delete", hdr, code, 200, "")
          /\ tables' = ensure_schema
          /\ codes' = [c \in Codes |-> IF c = Strip(code) THEN NoRow ELSE codes[c]]
  /\ UNCHANGED <<reviewsSchema, reviews, made, wlock, clientVars, is_admin, adminPassword, galleryVars>>

IdArgs == {<<"1">>, <<" ", "2">>, <<"x">>}

\* a delete that also gives back the code of the reviewer whose row it removes
DeleteReviewFreesCode(hdr, rid) ==
  /\ admin_write_required(hdr) = NoResp
  /\ IsDigit(Strip(rid))
  /\ has_table("reviews")
  /\ ~Locked
  /\ reviews' = {r \in reviews : r.id # DecVal(Strip(rid))}
  /\ IF reviews' = reviews
       THEN Answer("reviews/delete", hdr, rid, 404, "not_found")
       ELSE Answer("reviews/delete", hdr, rid, 200, "")
  /\ codes' = [c \in Codes |->
                IF \E r \in reviews \ reviews' :
                     "name" \in DOMAIN r.vals /\ r.vals["name"] = codes[c].used_by_name
                  THEN FreshRow ELSE codes[c]]
  /\ UNCHANGED <<tables, reviewsSchema, made, wlock, clientVars, is_admin, adminPassword, galleryVars>>

\* POST /api/admin/reviews/delete
DeleteReview(hdr, rid) ==
  /\ IF admin_write_required(hdr) # NoResp
       THEN /\ Refused("reviews/delete", hdr, rid)
            /\ reviews' = reviews
     ELSE IF ~IsDigit(Strip(rid))
       THEN /\ Answer("reviews/delete", hdr, rid, 400, "bad_id")
            /\ reviews' = reviews
     ELSE IF ~has_table("reviews")
       THEN /\ Answer("reviews/delete", hdr, rid, 500, "missing_reviews_table")
            /\ reviews' = reviews
     ELSE IF Locked
       THEN /\ Answer("reviews/delete", hdr, rid, 500, Uncaught)
            /\ reviews' = reviews
     ELSE /\ reviews' = {r \in reviews : r.id # DecVal(Strip(rid))}
          /\ IF reviews' = reviews
               THEN Answer("reviews/delete", hdr, rid, 404, "not_found")
               ELSE Answer("reviews/delete", hdr, rid, 200, "")
  /\ UNCHANGED <<tables, reviewsSchema, codes, made, wlock, clientVars, is_admin, adminPassword, galleryVars>>

-----------------------------------------------------------------------------
(* Gallery *)

\* ALLOWED_IMAGE_EXTS
ALLOWED_IMAGE_EXTS ==
  { <<".", "j", "p", "g">>, <<".", "j", "p", "e", "g">>, <<".", "p", "n", "g">>,
    <<".", "w", "e", "b", "p">> }

\* is_allowed_filename(name)
is_allowed_filename(name) == Suffix(name) \in ALLOWED_IMAGE_EXTS

\* an upload: file part present or not, its name, the category, over the size cap or not
Upload(file, name, category, big) ==
  [file |-> file, name |-> name, category |-> category, big |-> big]

Uploads ==
  { Upload(TRUE, <<"a", ".", "J", "P", "G">>, <<"d", "o", "g">>, FALSE),
    Upload(TRUE, <<"a", ".", "j", "p", "g">>, <<"d", "o", "g">>, TRUE),
    Upload(TRUE, <<"a", ".", "e", "x", "e">>, <<"d", "o", "g">>, FALSE),
    Upload(TRUE, <<"a", ".", "j", "p", "g">>, <<" ">>, FALSE),
    Upload(FALSE, <<>>, <<"d", "o", "g">>, FALSE) }

\* secrets.token_urlsafe(10): one token per upload
Token(n) == <<"t", "0" , "0">> \o <<CHOOSE d \in Digits : DigitVal(d) = n % 10>>

\* make_stored_filename(original)
make_stored_filename(name) == Token(nextImageId) \o Suffix(name)

\* POST /api/admin/gallery/upload
GalleryUpload(hdr, up) ==
  /\ nextImageId <= MaxUploads
  /\ IF admin_write_required(hdr) # NoResp
       THEN /\ Refused("gallery/upload", hdr, up.name)
            /\ UNCHANGED <<tables, galleryVars>>
     ELSE IF ~up.file
       THEN /\ Answer("gallery/upload", hdr, up.name, 400, "missing_file")
            /\ UNCHANGED <<tables, galleryVars>>
     ELSE IF Strip(up.name) = <<>> \/ ~is_allowed_filename(Strip(up.name))
       THEN /\ Answer("gallery/upload", hdr, up.name, 400, "bad_file_type")
            /\ UNCHANGED <<tables, galleryVars>>
     ELSE IF Strip(up.category) = <<>>
       THEN /\ Answer("gallery/upload", hdr, up.name, 400, "missing_category")
            /\ UNCHANGED <<tables, galleryVars>>
     ELSE IF up.big
       THEN \* saved, found over MAX_IMAGE_BYTES, removed
            /\ Answer("gallery/upload", hdr, up.name, 413, "file_too_large")
            /\ UNCHANGED <<tables, galleryVars>>
     ELSE IF Locked
       THEN \* the INSERT raises; the saved file is removed again
            /\ Answer("gallery/upload", hdr, up.name, 500, "server_error")
            /\ UNCHANGED <<tables, galleryVars>>
     ELSE /\ Answer("gallery/upload", hdr, up.name, 200, "")
          /\ tables' = ensure_schema
          /\ files' = files \cup {make_stored_filename(Strip(up.name))}
          /\ gallery' = gallery \cup
               {[id |-> nextImageId, filename |-> make_stored_filename(Strip(up.name)),
                 category |-> Strip(up.category)]}
          /\ nextImageId' = nextImageId + 1
  /\ UNCHANGED <<reviewsSchema, codes, reviews, made, wlock, clientVars, is_admin, adminPassword>>

\* a delete that puts the row back and answers 500 when the file cannot be removed
GalleryDeleteStrict(hdr, rid, removed) ==
  LET hit == {g \in gallery : IsDigit(Strip(rid)) /\ g.id = DecVal(Strip(rid))} IN
  /\ admin_write_required(hdr) = NoResp
  /\ hit # {}
  /\ ~Locked
  /\ IF removed
       THEN /\ Answer("gallery/delete", hdr, rid, 200, "")
            /\ gallery' = gallery \ hit
            /\ files' = files \ {g.filename : g \in hit}
       ELSE /\ Answer("gallery/delete", hdr, rid, 500, "server_error")
            /\ UNCHANGED <<gallery, files>>
  /\ UNCHANGED <<storeVars, clientVars, is_admin, adminPassword, nextImageId>>

\* POST /api/admin/gallery/delete; removed: whether os.remove succeeded
GalleryDelete(hdr, rid, removed) ==
  LET hit == {g \in gallery : IsDigit(Strip(rid)) /\ g.id = DecVal(Strip(rid))} IN
  /\ IF admin_write_required(hdr) # NoResp
       THEN /\ Refused("gallery/delete", hdr, rid)
            /\ UNCHANGED <<tables, gallery, files>>
     ELSE IF ~IsDigit(Strip(rid))
       THEN /\ Answer("gallery/delete", hdr, rid, 400, "bad_id")
            /\ UNCHANGED <<tables, gallery, files>>
     ELSE IF hit = {}
       THEN /\ Answer("gallery/delete", hdr, rid, 404, "not_found")
            /\ tables' = IF Locked THEN tables ELSE ensure_schema
            /\ UNCHANGED <<gallery, files>>
     ELSE IF Locked
       THEN /\ Answer("gallery/delete", hdr, rid, 500, Uncaught)
            /\ UNCHANGED <<tables, gallery, files>>
     ELSE /\ Answer("gallery/delete", hdr, rid, 200, "")
          /\ tables' = tables
          /\ gallery' = gallery \ hit
          /\ files' = IF removed THEN files \ {g.filename : g \in hit} ELSE files
  /\ UNCHANGED <<reviewsSchema, codes, reviews, made, wlock, clientVars, is_admin,
                 adminPassword, nextImageId>>

-----------------------------------------------------------------------------
(* The listings *)

\* admin_required: the session check of the GET routes
admin_required ==
  IF ~is_admin THEN Response(401, "unauthorized") ELSE NoResp

Unauthorized == AResp(401, "unauthorized", <<>>)

\* a listing response: 200 and the ids of the images it shows
Listing(ids) == [status |-> 200, error |-> "", detail |-> <<>>, images |-> ids]

\* GET /api/admin/codes and GET /api/admin/codes/unused.csv: ensure_schema, then SELECTs
api_admin_codes ==
  /\ IF admin_required # NoResp
       THEN /\ adminResp' = Unauthorized
            /\ tables' = tables
     ELSE IF Locked /\ ensure_schema # tables
       THEN /\ adminResp' = AResp(500, Uncaught, <<>>)
            /\ tables' = tables
     ELSE /\ adminResp' = AResp(200, "", <<>>)
          /\ tables' = ensure_schema
  /\ UNCHANGED <<reviewsSchema, codes, reviews, made, wlock, clientVars, is_admin,
                 adminPassword, galleryVars>>

\* GET /api/admin/reviews
api_admin_reviews ==
  /\ adminResp' = IF admin_required # NoResp THEN Unauthorized ELSE AResp(200, "", <<>>)
  /\ UNCHANGED <<storeVars, clientVars, is_admin, adminPassword, galleryVars>>

\* SELECT id, filename, ... FROM gallery_images, when the table exists
GalleryRows == IF has_table("gallery_images") THEN gallery ELSE {}

\* GET /api/admin/gallery
api_admin_gallery_list ==
  /\ adminResp' = IF admin_required # NoResp
                    THEN Unauthorized
                    ELSE Listing({g.id : g \in GalleryRows})
  /\ UNCHANGED <<storeVars, clientVars, is_admin, adminPassword, galleryVars>>

\* the groups of /gallery-data: one per category, each with its images
Groups ==
  { [category |-> c, images |-> {g.id : g \in {h \in GalleryRows : h.category = c}}] :
      c \in {g.category : g \in GalleryRows} }

\* GET /gallery-data: public
gallery_data ==
  /\ adminResp' = Listing(UNION {grp.images : grp \in Groups})
  /\ UNCHANGED <<storeVars, clientVars, is_admin, adminPassword, galleryVars>>

ListStep ==
  \/ api_admin_codes
  \/ api_admin_reviews
  \/ api_admin_gallery_list
  \/ gallery_data

SessionStep ==
  \/ \E pw \in Passwords : Login(pw)
  \/ \E h \in Headers : Logout(h)

CodesStep ==
  \/ \E h \in Headers, raw \in Bodies : AddCodes(h, raw)
  \/ \E h \in Headers, c \in CodeArgs : DeleteCode(h, c)
  \/ \E h \in Headers, rid \in IdArgs : DeleteReview(h, rid)

GalleryStep ==
  \/ \E h \in Headers, up \in Uploads : GalleryUpload(h, up)
  \/ \E h \in Headers, rid \in IdArgs, removed \in BOOLEAN : GalleryDelete(h, rid, removed)

\* the service: one client's requests, one after another, among the admin's calls
Front == {p \in Clients : \A q \in Clients : p <= q}

Next ==
  \/ \E p \in Front : SoloSteps(p, ServiceRequests)
  \/ \E p \in Front : NextRequest(p)
  \/ Health
  \/ SessionStep
  \/ CodesStep

Spec == InitService /\ [][Next]_vars

\* the admin API alone, every endpoint
NextAdmin ==
  \/ SessionStep
  \/ CodesStep
  \/ GalleryStep
  \/ ListStep

SpecAdmin == InitSeeded /\ [][NextAdmin]_vars

-----------------------------------------------------------------------------
(* Properties of POST /submit-review *)

Valid(r) == Validate(r) = NoResp
CodeOf(p) == Parse(req[p]).code
Answered(p, st) == pc[p] = "done" /\ resp[p].status = st
Winners(c) == {p \in Clients : Answered(p, 200) /\ CodeOf(p) = c}
InvalidCode == Response(403, "invalid_code")

\* under SpecRedeem no row is added or deleted: c held an unredeemed row at the start
SeededUnredeemed(c) == Unredeemed(c) \/ made[c] > 0

(* C1: when every client has sent a valid review for the same code, which was *)
(* seeded unredeemed, and all have been answered, whatever the interleaving   *)
(* of their steps, exactly one was accepted, the others were refused (403     *)
(* invalid_code or 503 db_busy), and one review row exists for the code; at   *)
(* no moment has the code been redeemed twice.                                *)
C1_OneWinner ==
  \A c \in Codes :
    /\ made[c] <= 1
    /\ Cardinality(Winners(c)) <= 1
    /\ ( /\ SeededUnredeemed(c)
         /\ \A p \in Clients : pc[p] = "done" /\ Valid(req[p]) /\ CodeOf(p) = c )
       => /\ Cardinality(Winners(c)) = 1
          /\ \A p \in Clients \ Winners(c) :
               resp[p] \in {InvalidCode, Response(503, "db_busy")}
          /\ made[c] = 1
          /\ Cardinality(reviews) = 1

C1_Witness ==
  /\ \A p \in Clients : pc[p] = "done" /\ Valid(req[p]) /\ CodeOf(p) = C123
  /\ \E p, q \in Clients : resp[p] = Ok200 /\ resp[q] = Response(503, "db_busy")
  /\ made[C123] = 1

(* C2: the commit of an accepted review adds exactly one review row and turns *)
(* the code's unredeemed row into a used one carrying the reviewer's name and *)
(* email; a submit-review whose UPDATE runs when the code is already used,    *)
(* an identical replay included, is answered 403 invalid_code and changes     *)
(* neither table; no code is redeemed twice.                                  *)
C2_SingleUse ==
  /\ [](\A c \in Codes : made[c] <= 1)
  /\ [][\A p \in Clients :
         /\ (pc[p] = "commit" /\ resp'[p] = Ok200) =>
              /\ Unredeemed(CodeOf(p))
              /\ codes' = [codes EXCEPT ![CodeOf(p)] =
                             UsedRow(OrNone(Parse(req[p]).email), Parse(req[p]).name)]
              /\ Cardinality(reviews') = Cardinality(reviews) + 1
              /\ reviews \subseteq reviews'
         /\ ( /\ pc[p] = "update" /\ pc'[p] # "update"
              /\ RowOf(CodeOf(p)).present /\ ~Unredeemed(CodeOf(p)) ) =>
              /\ pc'[p] = "done"
              /\ resp'[p] = InvalidCode
              /\ codes' = codes
              /\ reviews' = reviews
      ]_vars

C2_Witness ==
  \E p, q \in Clients :
    /\ p # q
    /\ req[p] = req[q]
    /\ Answered(p, 200)
    /\ pc[q] = "done" /\ resp[q] = InvalidCode
    /\ codes[C123] = UsedRow(Mail, Alice)
    /\ Cardinality(reviews) = 1

(* C3: a submit-review with valid fields whose well-formed code has no row in *)
(* review_codes is never accepted; when its UPDATE runs it is answered 403    *)
(* invalid_code, the very response an already redeemed code gets, and neither *)
(* table changes.                                                             *)
C3_UnknownCode ==
  /\ [](\A p \in Clients :
          (Valid(req[p]) /\ ~RowOf(CodeOf(p)).present /\ pc[p] = "done") =>
             resp[p] \in {InvalidCode, Response(503, "db_busy")})
  /\ [][\A p \in Clients :
         (pc[p] = "update" /\ pc'[p] # "update" /\ ~RowOf(CodeOf(p)).present) =>
            /\ pc'[p] = "done"
            /\ resp'[p] = InvalidCode
            /\ codes' = codes
            /\ reviews' = reviews
      ]_vars

C3_Witness ==
  \E p \in Clients :
    /\ Valid(req[p])
    /\ CodeOf(p) = C456
    /\ ~codes[C456].present
    /\ pc[p] = "done" /\ resp[p] = InvalidCode
    /\ reviews = {}

(* C4: a step changes review_codes or reviews only as the commit of an        *)
(* accepted request, which turns the request's unredeemed code into a used    *)
(* one and adds one review row, both at once; a request answered anything but *)
(* 200, a store error after the UPDATE or at the commit included, leaves both *)
(* tables as they were and no write pending.                                  *)
C4_AllOrNothing ==
  [][ /\ (codes' # codes \/ reviews' # reviews) =>
           \E p \in Clients :
             /\ pc[p] = "commit" /\ pc'[p] = "done" /\ resp'[p] = Ok200
             /\ Unredeemed(CodeOf(p))
             /\ codes' = [codes EXCEPT ![CodeOf(p)] =
                            UsedRow(OrNone(Parse(req[p]).email), Parse(req[p]).name)]
             /\ Cardinality(reviews') = Cardinality(reviews) + 1
             /\ reviews \subseteq reviews'
      /\ \A p \in Clients :
           (pc[p] # "done" /\ pc'[p] = "done" /\ resp'[p] # Ok200) =>
              /\ codes' = codes
              /\ reviews' = reviews
              /\ txn'[p] = NoTxn
              /\ wlock' # p
    ]_vars

\* the NOT NULL column failed the INSERT after the UPDATE had marked the code
C4_Witness ==
  \E p \in Clients :
    /\ reviewsSchema.strict
    /\ pc[p] = "done" /\ resp[p] = Response(500, "server_error")
    /\ Unredeemed(CodeOf(p))
    /\ reviews = {}
    /\ txn[p] = NoTxn
    /\ wlock = NoClient

\* the rating is no integer of 1..5: a fraction, a non-numeric string, or out of range
BadRating(r) ==
  \/ r.kind = "float" /\ r.frac # 0
  \/ r.kind = "str" /\ ~PyInt(r).ok
  \/ r.kind \in {"int", "str"} /\ PyInt(r).ok /\ (PyInt(r).val < 1 \/ PyInt(r).val > 5)

(* C5: a request with name, message and a well-formed code whose rating is    *)
(* outside 1..5 or no integer is answered 400 on receipt: it never reaches    *)
(* the store.                                                                 *)
C5_BadRatingRejected ==
  \A p \in Clients :
    ( /\ pc[p] # "idle"
      /\ Parse(req[p]).name # <<>> /\ Parse(req[p]).message # <<>>
      /\ CODE_RE(CodeOf(p))
      /\ BadRating(req[p].rating) )
    => Answered(p, 400)

(* C9: submit-review answers 503 exactly when BEGIN IMMEDIATE found the write *)
(* lock held by another connection; every other failure is answered 500.      *)
C9_BusyOnlyOnContention ==
  [][\A p \in Clients :
       (pc[p] # "done" /\ pc'[p] = "done") =>
          (resp'[p].status = 503 <=> (pc[p] = "begin" /\ wlock \notin {NoClient, p}))
    ]_vars

-----------------------------------------------------------------------------
(* Properties of the codes, the schema and the admin API *)

Redeemed(c) == RowOf(c).present /\ RowOf(c).used_at # NULL

(* C6 as stated: a code value is redeemed at most once, and once it has been  *)
(* redeemed it is never available for redemption again.                       *)
C6_RedeemedOnce ==
  \A c \in Codes : made[c] <= 1 /\ (made[c] >= 1 => ~Unredeemed(c))

(* C6, amended: while its row exists a redeemed code never changes, whatever  *)
(* is called; a row becomes redeemed only by the commit of an accepted        *)
(* request for it; and the UPDATE proceeds to the insert exactly when the     *)
(* code's row exists with used_at null.                                       *)
C6_NoWayBack ==
  [][ /\ \A c \in Codes :
          /\ (Redeemed(c) /\ codes'[c].present) => codes'[c] = codes[c]
          /\ (~Redeemed(c) /\ codes'[c].present /\ codes'[c].used_at # NULL) =>
                /\ Unredeemed(c)
                /\ \E p \in Clients :
                     pc[p] = "commit" /\ resp'[p] = Ok200 /\ CodeOf(p) = c
      /\ \A p \in Clients :
           (pc[p] = "update" /\ pc'[p] # "update") =>
              (pc'[p] = "insert" <=> Unredeemed(CodeOf(p)))
    ]_vars

\* the same code value redeemed a second time, after codes/delete and codes/add
C6_Witness == made[C123] = 2 /\ Redeemed(C123)

\* the non-blank lines of the body that are not three digits, by position
BadLines(raw) ==
  {i \in 1..Len(SplitLines(raw)) :
     Strip(SplitLines(raw)[i]) # <<>> /\ ~CODE_RE(Strip(SplitLines(raw)[i]))}

FirstBadLine(raw) ==
  Strip(SplitLines(raw)[CHOOSE i \in BadLines(raw) : \A j \in BadLines(raw) : i <= j])

\* the bodies with such a line, and the first such line of each
BadBodies == {b \in Bodies : BadLines(b) # {}}
FirstBad == [b \in BadBodies |-> FirstBadLine(b)]

(* C7: a codes/add call of an admin session, with the header, whose body has  *)
(* a non-blank line that is not three digits is answered 400                  *)
(* invalid_code_format naming the first such line, and review_codes is left   *)
(* as it was: no line is inserted.                                            *)
C7_AddAllOrNothing ==
  [][(is_admin /\ UNCHANGED <<clientVars, is_admin, reviews>>) =>
       \A raw \in BadBodies :
         AddCodes("smr-admin", raw) =>
            /\ adminResp' = AResp(400, "invalid_code_format", FirstBad[raw])
            /\ codes' = codes
            /\ tables' = tables
    ]_vars

\* "123\n456\nabc" was refused for abc, and neither 123 nor 456 has a row
C7_Witness ==
  /\ is_admin
  /\ adminResp = AResp(400, "invalid_code_format", <<"a", "b", "c">>)
  /\ \A c \in Codes : ~codes[c].present

MissingReviews == Response(500, "missing_reviews_table")

(* C8 as stated: once the schema was bootstrapped the reviews table exists    *)
(* with the other two, and no submit-review fails for a missing table.        *)
C8_AllTablesCreated ==
  /\ "review_codes" \in tables => tables = AllTables
  /\ \A p \in Clients : resp[p] # MissingReviews

(* C8, amended: the first /health or submit-review creates review_codes and   *)
(* gallery_images, both together; no request creates the reviews table; and   *)
(* a submit-review that opens a store without it is answered 500              *)
(* missing_reviews_table, the code left unredeemed.                           *)
C8_Bootstrap ==
  /\ []("review_codes" \in tables <=> "gallery_images" \in tables)
  /\ [][("reviews" \in tables') <=> ("reviews" \in tables)]_vars
  /\ [][(Health \/ \E p \in Clients : pc[p] = "schema" /\ pc'[p] # "schema") =>
           {"review_codes", "gallery_images"} \subseteq tables']_vars
  /\ [][\A p \in Clients :
          (pc[p] = "schema" /\ pc'[p] # "schema" /\ "reviews" \notin tables) =>
             /\ pc'[p] = "done" /\ resp'[p] = MissingReviews
             /\ codes' = codes /\ reviews' = reviews
      ]_vars
  /\ [](\A p \in Clients : pc[p] \in {"begin", "update", "insert", "commit"} =>
          "reviews" \in tables)

\* bootstrapped from empty, a code added, and the valid review for it refused
C8_Witness ==
  /\ tables = {"review_codes", "gallery_images"}
  /\ Unredeemed(C123)
  /\ \E p \in Clients :
       /\ Valid(req[p]) /\ CodeOf(p) = C123
       /\ pc[p] = "done" /\ resp[p] = MissingReviews

\* a state-changing admin call carrying header h
WriteCall(h) ==
  \/ Logout(h)
  \/ \E raw \in Bodies : AddCodes(h, raw)
  \/ \E c \in CodeArgs : DeleteCode(h, c)
  \/ \E rid \in IdArgs : DeleteReview(h, rid)
  \/ \E up \in Uploads : GalleryUpload(h, up)
  \/ \E rid \in IdArgs, removed \in BOOLEAN : GalleryDelete(h, rid, removed)

NothingElseChanges ==
  UNCHANGED <<storeVars, clientVars, is_admin, adminPassword, galleryVars>>

(* C10 as stated: every state-changing admin call without the header          *)
(* X-Requested-With: smr-admin is answered 400 bad_request and changes        *)
(* nothing.                                                                   *)
C10_MissingHeaderIs400 ==
  [][\A h \in Headers \ {"smr-admin"} :
       WriteCall(h) => (adminResp' = AResp(400, "bad_request", <<>>) /\ NothingElseChanges)
    ]_vars

(* C10, amended: a state-changing admin call without the header changes       *)
(* nothing; in an admin session it is answered 400 bad_request, and without   *)
(* an admin session 401 unauthorized, the session being checked first.        *)
C10_HeaderRequired ==
  [][\A h \in Headers \ {"smr-admin"} :
       WriteCall(h) =>
         /\ adminResp' = IF is_admin THEN AResp(400, "bad_request", <<>>)
                                     ELSE AResp(401, "unauthorized", <<>>)
         /\ NothingElseChanges
    ]_vars

C10_Witness ==
  /\ is_admin
  /\ adminResp = AResp(400, "bad_request", <<>>)
  /\ \E c \in Codes : codes[c].present

-----------------------------------------------------------------------------
(* C11 *)

\* a call to an endpoint behind the session check, write or read
GatedCall ==
  \/ \E h \in Headers : WriteCall(h)
  \/ api_admin_codes
  \/ api_admin_reviews
  \/ api_admin_gallery_list

(* C11: with an empty configured admin password no request establishes an     *)
(* admin session, whatever password it submits, and every session-gated       *)
(* endpoint answers 401; a session becomes an admin session only in a login   *)
(* whose password equals the configured non-empty password, and a logout      *)
(* that is answered 200 leaves the session without is_admin.                  *)
C11_FailsClosed ==
  /\ [](adminPassword = <<>> => ~is_admin)
  /\ [][/\ (adminPassword = <<>> /\ GatedCall) => adminResp' = Unauthorized
        /\ (~is_admin /\ is_admin') =>
              /\ adminPassword # <<>>
              /\ Login(adminPassword)
              /\ adminResp' = AResp(200, "", <<>>)
        /\ \A pw \in Passwords :
              (Login(pw) /\ pw # adminPassword) => (is_admin' = is_admin /\ adminResp'.status # 200)
        /\ \A h \in Headers :
              (Logout(h) /\ adminResp' = AResp(200, "", <<>>)) => ~is_admin'
       ]_vars

\* no password is configured and a login was tried
C11_Witness ==
  /\ adminPassword = <<>>
  /\ adminResp = AResp(500, "admin_not_configured", <<>>)
  /\ ~is_admin

-----------------------------------------------------------------------------
(* C12 *)

(* C12: a call to /api/admin/reviews/delete, whatever it answers, leaves      *)
(* every review_codes row as it was, the used rows with their used_at,        *)
(* used_by_name and used_by_email: a step that changes a row, the tables or   *)
(* a redemption count is no such call. And a submit-review whose UPDATE runs  *)
(* on a redeemed code, the review it created deleted or not, is answered 403  *)
(* invalid_code and writes nothing.                                           *)
C12_DeleteKeepsCode ==
  [][/\ (codes' # codes \/ tables' # tables \/ made' # made) =>
         ~ \E h \in Headers, rid \in IdArgs : DeleteReview(h, rid)
     /\ \A p \in Clients :
           (pc[p] = "update" /\ pc'[p] # "update" /\ Redeemed(CodeOf(p))) =>
              /\ pc'[p] = "done"
              /\ resp'[p] = InvalidCode
              /\ codes' = codes
              /\ reviews' = reviews
    ]_vars

\* the review is deleted, its code row is still the used one, and a submit
\* with that code was turned away
C12_Witness ==
  \E p \in Clients :
    /\ reviews = {}
    /\ adminResp = AResp(200, "", <<>>)
    /\ codes[C123] = UsedRow(Mail, Alice)
    /\ made[C123] = 1
    /\ pc[p] = "done"
    /\ CodeOf(p) = C123
    /\ resp[p] = InvalidCode

-----------------------------------------------------------------------------
(* C13 *)

Ids(rows) == {g.id : g \in rows}

\* the call passes the decorator, names an image that exists, and the store takes the DELETE
Deletable(h, rid) ==
  /\ admin_write_required(h) = NoResp
  /\ IsDigit(Strip(rid))
  /\ DecVal(Strip(rid)) \in Ids(gallery)
  /\ ~Locked

(* C13: a /api/admin/gallery/delete of an existing image id is answered 200   *)
(* and removes the metadata row whether os.remove succeeded or not, the file  *)
(* staying on disk when it did not; an id that was issued and is no longer in *)
(* gallery_images never comes back; and /api/admin/gallery and /gallery-data  *)
(* list exactly the ids in gallery_images, so every later listing omits the   *)
(* deleted image.                                                             *)
C13_MetadataAuthoritative ==
  [][/\ \A h \in Headers, rid \in IdArgs, removed \in BOOLEAN :
         (Deletable(h, rid) /\ GalleryDelete(h, rid, removed)) =>
            /\ adminResp' = AResp(200, "", <<>>)
            /\ Ids(gallery') = Ids(gallery) \ {DecVal(Strip(rid))}
            /\ (~removed => files' = files)
     /\ \A i \in 1..(nextImageId - 1) : (i \notin Ids(gallery) => i \notin Ids(gallery'))
     /\ (is_admin /\ api_admin_gallery_list) => adminResp'.images = Ids(gallery)
     /\ gallery_data => adminResp'.images = Ids(gallery)
    ]_vars

\* image 1 was deleted, its file is still on disk, and a listing made since shows no image
C13_Witness ==
  /\ nextImageId = 2
  /\ gallery = {}
  /\ files # {}
  /\ adminResp = Listing({})

====
